---- MODULE Spec2Model ----
(***************************************************************************)
(* Model of src/pa3.c: the translation cache (TLB), the frame allocator,   *)
(* page deallocation, the copy-on-write fault handler and process          *)
(* switch / fork of a two-level paging simulator.                          *)
(*                                                                         *)
(* Unsigned 32-bit fields (mapcounts[], tlb[].rw/.vpn/.pfn, the value      *)
(* returned by alloc_page) are held as the representative in               *)
(* -2^31 .. 2^31-1 that is congruent to them modulo 2^32: -1 stands for    *)
(* 4294967295 (so `x--` on 0 gives -1, and `return -1` gives -1).  Within  *)
(* the step bound no counter comes near the other end of the range, so ++  *)
(* and -- are +1 and -1 on representatives and `== 0`, `== 1` are exact.   *)
(***************************************************************************)
EXTENDS Integers, Sequences, FiniteSets, TLC

\* ------------------------------------------------------------- bounds
\* log2 of the number of PTEs per directory (the real build uses 4)
PTES_PER_PAGE_SHIFT == 1
\* number of page frames (the real build uses 128)
NR_PAGEFRAMES == 2
\* largest vpn the driver issues (kept inside the table)
MaxVpn == 2
\* largest pid the driver issues
MaxPid == 1
\* largest pid the driver of the ready queue issues (see SpecSched)
MaxSchedPid == 2
\* number of driver commands in one run
MaxSteps == 5

\* ---------------------------------------------------------- constants
ACCESS_READ == 1
ACCESS_WRITE == 2

NR_PTES_PER_PAGE == 2 ^ PTES_PER_PAGE_SHIFT
NR_TLB_ENTRIES == 2 ^ (PTES_PER_PAGE_SHIFT * 2)
NR_VPNS == NR_PTES_PER_PAGE * NR_PTES_PER_PAGE

Min(a, b) == IF a < b THEN a ELSE b

Frames == 0 .. (NR_PAGEFRAMES - 1)
Slots == 0 .. (NR_TLB_ENTRIES - 1)
Index == 0 .. (NR_PTES_PER_PAGE - 1)
AllVpns == 0 .. (NR_VPNS - 1)
Vpns == 0 .. Min(MaxVpn, NR_VPNS - 1)
Pids == 0 .. MaxPid
SchedPids == 0 .. MaxSchedPid
AllPids == Pids \cup SchedPids
AllocAccess == {ACCESS_READ, ACCESS_WRITE, ACCESS_READ + ACCESS_WRITE}
ProbeAccess == {ACCESS_READ, ACCESS_WRITE}

\* current, ptbr, processes, mapcounts, tlb: the globals of the simulator;
\* pagetable[p]: struct pagetable of the process with pid p;
\* crashed: a call dereferenced a pointer that was never stored;
\* zeroed: every block malloc() returned so far happened to hold zeros;
\* linked: the processes whose list links (struct process .list) hold stored
\* pointers; created[p]: how many struct process with pid p came to exist;
\* last: the latest call (see Call); steps: the number of calls made
VARIABLES current, ptbr, processes, pagetable, mapcounts, tlb, crashed, zeroed, linked, created, last, steps

vars == <<current, ptbr, processes, pagetable, mapcounts, tlb, crashed, zeroed, linked, created, last, steps>>

\* ------------------------------------------------------------- records
\* struct pte with every field zero (static storage, or a slot free_page reset)
ZeroPTE == [valid |-> FALSE, rw |-> 0, pfn |-> 0, private |-> 0]

\* contents a malloc()ed struct pte may hold before anything is stored in it
UninitPTEs ==
  { ZeroPTE,
    [valid |-> TRUE, rw |-> ACCESS_READ + ACCESS_WRITE, pfn |-> 0, private |-> ACCESS_READ] }

\* an outer_ptes[] slot: NULL, a malloc()ed directory, or a pointer that was
\* never stored ("wild": not NULL and not a directory)
NullDir == [state |-> "null", ptes |-> [j \in Index |-> ZeroPTE]]
WildDir == [state |-> "wild", ptes |-> [j \in Index |-> ZeroPTE]]
Dir(p) == [state |-> "alloc", ptes |-> p]

\* struct pagetable of the statically allocated first process
NullTable == [i \in Index |-> NullDir]

\* struct tlb_entry in static storage
ZeroTlbEntry == [valid |-> FALSE, rw |-> 0, vpn |-> 0, pfn |-> 0]
\* struct tlb_entry after free_page / switch_process invalidated it
InvalidTlbEntry == [valid |-> FALSE, rw |-> -1, vpn |-> -1, pfn |-> -1]

\* ------------------------------------------------------------- indexing
outer_pte_index(vpn) == vpn \div NR_PTES_PER_PAGE
pte_index(vpn) == vpn % NR_PTES_PER_PAGE

\* ptbr->outer_ptes[vpn / NR_PTES_PER_PAGE]
cur_outer_pte(vpn) == pagetable[ptbr][outer_pte_index(vpn)]
\* cur_outer_pte->ptes[vpn % NR_PTES_PER_PAGE]
cur_pte(vpn) == cur_outer_pte(vpn).ptes[pte_index(vpn)]

\* the page table pt with the PTE of vpn replaced by e (its directory present)
WithPTE(pt, vpn, e) ==
  [pt EXCEPT ![outer_pte_index(vpn)] =
     Dir([pt[outer_pte_index(vpn)].ptes EXCEPT ![pte_index(vpn)] = e])]

\* the processes that exist: the running one and those in the ready queue
Procs == {current} \cup {processes[k] : k \in 1 .. Len(processes)}

\* the lowest member of a set of indices; -1 when there is none
Lowest(S) == IF S = {} THEN -1 ELSE CHOOSE x \in S : \A y \in S : x <= y

\* mutant of first_free_frame: frame 0 is used when the scan finds nothing
first_free_frame_zero(mc) ==
  IF {f \in Frames : mc[f] = 0} = {} THEN 0 ELSE Lowest({f \in Frames : mc[f] = 0})

\* the frame the scan `for i: if (!mapcounts[i])` stops at, -1 when none is free
first_free_frame(mc) == Lowest({f \in Frames : mc[f] = 0})

\* ------------------------------------------------- the call just made
\* `last` records the driver's latest call: its name, arguments and result,
\* and what the call found: the current process's PTE of vpn (pte), the
\* count of that PTE's frame (cnt), the lowest free frame (free) and the
\* number of valid TLB entries it concerns (cached: those of vpn, or all of
\* them for switch_process), the process that was running (from) and the
\* ready queue (queue).
Call(op, vpn, rw, pid, pfn, cached) ==
  [op |-> op, vpn |-> vpn, rw |-> rw, pid |-> pid, pfn |-> pfn, ret |-> 0,
   from |-> current, queue |-> processes,
   pte |-> IF cur_outer_pte(vpn).state = "alloc" THEN cur_pte(vpn) ELSE ZeroPTE,
   cnt |-> IF cur_outer_pte(vpn).state = "alloc" THEN mapcounts[cur_pte(vpn).pfn] ELSE 0,
   free |-> first_free_frame(mapcounts),
   cached |-> cached]

\* valid TLB entries of vpn; all valid TLB entries
CachedOf(vpn) == Cardinality({i \in Slots : tlb[i].valid /\ tlb[i].vpn = vpn})
CachedAll == Cardinality({i \in Slots : tlb[i].valid})

\* ------------------------------------------------------------------ Init
Init ==
  /\ current = 0
  /\ ptbr = 0
  /\ processes = <<>>
  /\ pagetable = [p \in AllPids |-> NullTable]
  /\ mapcounts = [f \in Frames |-> 0]
  /\ tlb = [s \in Slots |-> ZeroTlbEntry]
  /\ crashed = FALSE
  /\ zeroed = TRUE
  /\ linked = {0}
  /\ created = [p \in AllPids |-> IF p = 0 THEN 1 ELSE 0]
  /\ last = Call("boot", 0, 0, 0, 0, 0)
  /\ steps = 0

\* one more driver command may run
Running == ~crashed /\ steps < MaxSteps

\* the call returned with the record l
Done(l) == last' = l /\ steps' = steps + 1 /\ crashed' = crashed


\* the call dereferenced a pointer that was never initialised
Crash(l) ==
  /\ crashed' = TRUE
  /\ last' = l
  /\ steps' = steps + 1
  /\ UNCHANGED <<current, ptbr, processes, pagetable, mapcounts, zeroed, linked, created>>

\* ------------------------------------------------------------------ TLB
\* mutant of probe_rw: the probe is compared as it came
probe_rw_same(rw) == rw

\* the rw value a probe for rw is compared with: (rw==2 ? 3 : rw)
probe_rw(rw) == IF rw = 2 THEN 3 ELSE rw

\* the first slot the scan of lookup_tlb stops at, -1 when it runs off the end
tlb_hit(t, vpn, rw) ==
  Lowest({i \in Slots : t[i].valid /\ t[i].vpn = vpn /\ t[i].rw = probe_rw(rw)})

\* mutant of tlb_entry_of: the valid bit is not tested
tlb_entry_of_stale(t, vpn) == Lowest({i \in Slots : t[i].vpn = vpn})

\* the first slot the first loop of insert_tlb stops at (a valid entry of vpn)
tlb_entry_of(t, vpn) == Lowest({i \in Slots : t[i].vpn = vpn /\ t[i].valid})

\* the first slot the second loop of insert_tlb stops at (an invalid entry)
tlb_free_slot(t) == Lowest({i \in Slots : ~t[i].valid})

\* the TLB after insert_tlb(vpn, rw, pfn)
tlb_inserted(t, vpn, rw, pfn) ==
  IF tlb_entry_of(t, vpn) # -1
    THEN [t EXCEPT ![tlb_entry_of(t, vpn)].rw = rw, ![tlb_entry_of(t, vpn)].pfn = pfn]
    ELSE IF tlb_free_slot(t) # -1
      THEN [t EXCEPT ![tlb_free_slot(t)] = [valid |-> TRUE, rw |-> rw, vpn |-> vpn, pfn |-> pfn]]
      ELSE t

\* mutant of tlb_invalidated: free_page forgets the TLB
tlb_invalidated_not(t, vpn) == t

\* the TLB after the invalidation loop of free_page(vpn)
tlb_invalidated(t, vpn) ==
  [i \in Slots |-> IF t[i].vpn = vpn /\ t[i].valid THEN InvalidTlbEntry ELSE t[i]]

\* mutant of tlb_flushed: the loop starts at slot 1
tlb_flushed_from1(t) == [i \in Slots |-> IF i = 0 THEN t[i] ELSE InvalidTlbEntry]

\* the TLB after the flush loop of switch_process
tlb_flushed(t) == [i \in Slots |-> InvalidTlbEntry]

\* bool lookup_tlb(vpn, rw, *pfn): ret 1 and the pfn on a hit, ret 0 on a miss
lookup_tlb(vpn, rw) ==
  /\ Running
  /\ LET l == Call("lookup_tlb", vpn, rw, 0, 0, CachedOf(vpn))
         i == tlb_hit(tlb, vpn, rw)
     IN  Done(IF i # -1 THEN [l EXCEPT !.pfn = tlb[i].pfn, !.ret = 1] ELSE l)
  /\ UNCHANGED <<current, ptbr, processes, pagetable, mapcounts, tlb, zeroed, linked, created>>

\* void insert_tlb(vpn, rw, pfn)
insert_tlb(vpn, rw, pfn) ==
  /\ Running
  /\ tlb' = tlb_inserted(tlb, vpn, rw, pfn)
  /\ Done(Call("insert_tlb", vpn, rw, 0, pfn, CachedOf(vpn)))
  /\ UNCHANGED <<current, ptbr, processes, pagetable, mapcounts, zeroed, linked, created>>

\* ------------------------------------------------------------ alloc_page
\* the directories malloc() may hand to alloc_page: every slot holds whatever
\* the memory held
UninitDirs == {Dir(p) : p \in [Index -> UninitPTEs]}

\* the directory malloc() hands out when the memory holds zeros
ZeroedDir == Dir([j \in Index |-> ZeroPTE])

\* the PTE alloc_page stores for frame pfn
alloc_pte(rw, pfn) == [valid |-> TRUE, rw |-> rw, pfn |-> pfn, private |-> rw]

\* unsigned int alloc_page(vpn, rw): ret is the frame, -1 when none is free
alloc_page(vpn, rw) ==
  /\ Running
  /\ LET f == first_free_frame(mapcounts)
         l == [Call("alloc_page", vpn, rw, 0, 0, CachedOf(vpn)) EXCEPT !.ret = f]
     IN  IF f = -1
           THEN Done(l) /\ UNCHANGED <<current, ptbr, processes, pagetable, mapcounts, tlb, zeroed, linked, created>>
           ELSE IF cur_outer_pte(vpn).state = "wild"
             THEN Crash(l) /\ UNCHANGED tlb
             ELSE /\ \E d \in (IF cur_outer_pte(vpn).state = "null"
                                 THEN UninitDirs ELSE {cur_outer_pte(vpn)}) :
                        /\ pagetable' =
                             [pagetable EXCEPT ![ptbr] =
                                WithPTE([@ EXCEPT ![outer_pte_index(vpn)] = d], vpn,
                                        alloc_pte(rw, f))]
                        /\ zeroed' = (zeroed /\ d \in {cur_outer_pte(vpn), ZeroedDir})
                  /\ mapcounts' = [mapcounts EXCEPT ![f] = @ + 1]
                  /\ Done(l)
                  /\ UNCHANGED <<current, ptbr, processes, tlb, linked, created>>

\* ------------------------------------------------------------- free_page
\* void free_page(vpn)
free_page(vpn) ==
  /\ Running
  /\ LET l == Call("free_page", vpn, 0, 0, 0, CachedOf(vpn))
     IN  IF cur_outer_pte(vpn).state = "null"
           THEN Done(l) /\ UNCHANGED <<current, ptbr, processes, pagetable, mapcounts, tlb, zeroed, linked, created>>
           ELSE IF cur_outer_pte(vpn).state = "wild"
             THEN Crash(l) /\ UNCHANGED tlb
             ELSE /\ pagetable' = [pagetable EXCEPT ![ptbr] = WithPTE(@, vpn, ZeroPTE)]
                  /\ mapcounts' = [mapcounts EXCEPT ![cur_pte(vpn).pfn] = @ - 1]
                  /\ tlb' = tlb_invalidated(tlb, vpn)
                  /\ Done(l)
                  /\ UNCHANGED <<current, ptbr, processes, zeroed, linked, created>>

\* ----------------------------------------------------- handle_page_fault
\* the test of line 225: a write to a valid read-only PTE whose private is read-write
is_cow_fault(e, rw) ==
  /\ e.valid
  /\ rw = ACCESS_WRITE
  /\ e.private = ACCESS_WRITE + ACCESS_READ
  /\ e.rw = ACCESS_READ

\* mutant of is_sole_owner: the count is compared with 0
is_sole_owner_zero(mc, pfn) == mc[pfn] = 0

\* the test of line 226: the frame has one mapping
is_sole_owner(mc, pfn) == mc[pfn] = 1

\* mutant of cow_mapcounts: the old frame keeps its count
cow_mapcounts_kept(mc, old, new) == [mc EXCEPT ![new] = @ + 1]

\* mapcounts after lines 233 and 236: the old frame --, the new frame ++
cow_mapcounts(mc, old, new) == [[mc EXCEPT ![old] = @ - 1] EXCEPT ![new] = @ + 1]

\* mutant of cow_promoted: true is returned with the PTE as it was
cow_promoted_kept(e) == e

\* the PTE after line 227: rw becomes read-write
cow_promoted(e) == [e EXCEPT !.rw = ACCESS_READ + ACCESS_WRITE]

\* bool handle_page_fault(vpn, rw): ret 1 for true, 0 for false
handle_page_fault(vpn, rw) ==
  /\ Running
  /\ LET l == Call("handle_page_fault", vpn, rw, 0, 0, CachedOf(vpn))
         e == cur_pte(vpn)
         f == first_free_frame(mapcounts)
         fail == Done(l) /\ UNCHANGED <<current, ptbr, processes, pagetable, mapcounts, tlb, zeroed, linked, created>>
     IN  IF cur_outer_pte(vpn).state = "null"
           THEN fail
           ELSE IF cur_outer_pte(vpn).state = "wild"
             THEN Crash(l) /\ UNCHANGED tlb
             ELSE IF is_cow_fault(e, rw)
               THEN IF is_sole_owner(mapcounts, e.pfn)
                      THEN /\ pagetable' = [pagetable EXCEPT ![ptbr] =
                                 WithPTE(@, vpn, cow_promoted(e))]
                           /\ Done([l EXCEPT !.ret = 1])
                           /\ UNCHANGED <<current, ptbr, processes, mapcounts, tlb, zeroed, linked, created>>
                      ELSE IF f # -1
                        THEN /\ mapcounts' = cow_mapcounts(mapcounts, e.pfn, f)
                             /\ pagetable' = [pagetable EXCEPT ![ptbr] =
                                   WithPTE(@, vpn, [e EXCEPT !.pfn = f,
                                                             !.rw = ACCESS_READ + ACCESS_WRITE])]
                             /\ Done([l EXCEPT !.ret = 1])
                             /\ UNCHANGED <<current, ptbr, processes, tlb, zeroed, linked, created>>
                        ELSE fail
               ELSE fail

\* -------------------------------------------------------- switch_process
\* list_add_tail(&p->list, &processes)
list_add_tail(q, p) == Append(q, p)

\* list_del(&p->list): the queue without p
list_del(q, p) == SelectSeq(q, LAMBDA x : x # p)

\* list_for_each_entry(...) if (proc->pid == pid): is pid in the ready queue
in_queue(q, pid) == \E k \in 1 .. Len(q) : q[k] = pid

\* the parent's PTE after lines 292-295: a read-write rw becomes read
fork_downgraded(e) ==
  IF e.rw = ACCESS_READ + ACCESS_WRITE THEN [e EXCEPT !.rw = ACCESS_READ] ELSE e

\* the parent's page table after the fork loop
fork_parent(pt) ==
  [i \in Index |->
     IF pt[i].state = "alloc"
       THEN Dir([j \in Index |-> fork_downgraded(pt[i].ptes[j])])
       ELSE pt[i]]

\* mapcounts after the fork loop visited the PTEs of vpns 0 .. k-1 of pt:
\* one ++ for every valid PTE
RECURSIVE fork_mapcounts(_, _, _)
fork_mapcounts(mc, pt, k) ==
  IF k = 0 THEN mc
  ELSE LET m == fork_mapcounts(mc, pt, k - 1)
           d == pt[outer_pte_index(k - 1)]
           e == d.ptes[pte_index(k - 1)]
       IN  IF d.state = "alloc" /\ e.valid
             THEN [m EXCEPT ![e.pfn] = @ + 1]
             ELSE m

\* the page tables the malloc()ed child may end up with: a copy of every
\* directory the parent has; the outer_ptes[] slots of the others are never
\* stored, so each holds NULL or some other bit pattern
fork_children(pt) ==
  { c \in [Index -> {NullDir, WildDir} \cup {fork_parent(pt)[i] : i \in Index}] :
      \A i \in Index :
        IF pt[i].state = "alloc" THEN c[i] = fork_parent(pt)[i]
                                 ELSE c[i] \in {NullDir, WildDir} }

\* mutant of switch_ptbr: the PTBR is left on the previous process
switch_ptbr_stale(old, proc) == old

\* the PTBR after line 277 (ptbr = &current->pagetable, current being proc)
switch_ptbr(old, proc) == proc

\* what list_del(&current->list) of line 282 may do to a process that is not
\* in the ready queue: when its links were stored (by list_add_tail, or by
\* the static initialiser of the first process) it returns; the links of a
\* malloc()ed process that was never queued were never stored, and unlinking
\* through them either returns or faults
unlink_faults(p) == IF p \in linked THEN {FALSE} ELSE {FALSE, TRUE}

\* void switch_process(pid)
switch_process(pid) ==
  /\ Running
  /\ LET l == Call("switch_process", 0, 0, pid, 0, CachedAll)
     IN  /\ tlb' = tlb_flushed(tlb)
         /\ last' = l
         /\ steps' = steps + 1
         /\ IF in_queue(processes, pid)
              THEN /\ processes' = list_del(list_add_tail(processes, current), pid)
                   /\ linked' = linked \cup {current}
                   /\ current' = pid
                   /\ ptbr' = switch_ptbr(ptbr, pid)
                   /\ UNCHANGED <<pagetable, mapcounts, crashed, zeroed, created>>
              ELSE IF current = pid
                THEN /\ processes' = list_del(processes, current)
                     /\ crashed' \in unlink_faults(current)
                     /\ UNCHANGED <<current, ptbr, pagetable, mapcounts, zeroed, linked, created>>
                ELSE IF \E i \in Index : pagetable[ptbr][i].state = "wild"
                  THEN /\ crashed' = TRUE
                       /\ UNCHANGED <<current, ptbr, processes, pagetable, mapcounts, zeroed, linked, created>>
                  ELSE /\ \E c \in fork_children(pagetable[ptbr]) :
                            /\ pagetable' = [pagetable EXCEPT ![ptbr] = fork_parent(@),
                                                              ![pid] = c]
                            /\ zeroed' = (zeroed /\ \A i \in Index : c[i].state # "wild")
                       /\ mapcounts' = fork_mapcounts(mapcounts, pagetable[ptbr], NR_VPNS)
                       /\ processes' = list_add_tail(processes, current)
                       /\ linked' = linked \cup {current}
                       /\ created' = [created EXCEPT ![pid] = @ + 1]
                       /\ current' = pid
                       /\ ptbr' = pid
                       /\ UNCHANGED crashed

\* ------------------------------------------------------------- translate
\* does the permission `granted` include the single access bit `access`
covers(granted, access) == (granted \div access) % 2 = 1

\* the driver's page-table walk for (vpn, rw) followed, when it resolves, by
\* insert_tlb(vpn, rw, pfn): ret 1 and the pfn on success, ret 0 on a fault
translate(vpn, rw) ==
  /\ Running
  /\ LET l == Call("translate", vpn, rw, 0, 0, CachedOf(vpn))
         e == cur_pte(vpn)
     IN  IF cur_outer_pte(vpn).state = "wild"
           THEN Crash(l) /\ UNCHANGED tlb
           ELSE IF cur_outer_pte(vpn).state = "alloc" /\ e.valid /\ covers(e.rw, rw)
             THEN /\ tlb' = tlb_inserted(tlb, vpn, rw, e.pfn)
                  /\ Done([l EXCEPT !.pfn = e.pfn, !.ret = 1])
                  /\ UNCHANGED <<current, ptbr, processes, pagetable, mapcounts, zeroed, linked, created>>
             ELSE Done(l) /\ UNCHANGED <<current, ptbr, processes, pagetable, mapcounts, tlb, zeroed, linked, created>>

\* ------------------------------------------------------------------ Next
\* the driver with its translation discipline: the TLB is filled by translate
Next ==
  \/ \E vpn \in Vpns, rw \in ProbeAccess : lookup_tlb(vpn, rw)
  \/ \E vpn \in Vpns, rw \in ProbeAccess : translate(vpn, rw)
  \/ \E vpn \in Vpns, rw \in AllocAccess : alloc_page(vpn, rw)
  \/ \E vpn \in Vpns : free_page(vpn)
  \/ \E vpn \in Vpns, rw \in ProbeAccess : handle_page_fault(vpn, rw)
  \/ \E pid \in Pids : switch_process(pid)

Spec == Init /\ [][Next]_vars

\* the driver of the ready queue: switches and forks over more pids, pages
\* being mapped and released in between
NextSched ==
  \/ \E pid \in SchedPids : switch_process(pid)
  \/ \E vpn \in Vpns, rw \in AllocAccess : alloc_page(vpn, rw)
  \/ \E vpn \in Vpns : free_page(vpn)

SpecSched == Init /\ [][NextSched]_vars

\* the driver of the translation cache alone: insert_tlb with any arguments
NextTLB ==
  \/ \E vpn \in Vpns, rw \in ProbeAccess : lookup_tlb(vpn, rw)
  \/ \E vpn \in Vpns, rw \in AllocAccess, pfn \in Frames : insert_tlb(vpn, rw, pfn)
  \/ \E vpn \in Vpns : alloc_page(vpn, ACCESS_READ + ACCESS_WRITE)
  \/ \E vpn \in Vpns : free_page(vpn)
  \/ \E pid \in Pids : switch_process(pid)

SpecTLB == Init /\ [][NextTLB]_vars

\* =================================================================== claims
\* the PTE of vpn in the page table of process p (ZeroPTE without a directory)
PTEOf(pt, p, vpn) ==
  IF pt[p][outer_pte_index(vpn)].state = "alloc"
    THEN pt[p][outer_pte_index(vpn)].ptes[pte_index(vpn)]
    ELSE ZeroPTE

\* the valid PTEs, over all processes, that map frame f
MappingsOf(f) ==
  {m \in Procs \X AllVpns : PTEOf(pagetable, m[1], m[2]).valid
                            /\ PTEOf(pagetable, m[1], m[2]).pfn = f}

\* the variables other than the record of the call and the step count
state == <<current, ptbr, processes, pagetable, mapcounts, tlb, crashed, zeroed, linked, created>>

\* C1: after any sequence of alloc_page, free_page, handle_page_fault and
\* switch_process calls, mapcounts[f] is the number of valid PTEs, over the
\* page tables of all processes, whose pfn is f.
C1_RefCountInvariant ==
  zeroed /\ ~crashed => \A f \in Frames : mapcounts[f] = Cardinality(MappingsOf(f))

C3_UpdateOrInsert ==
  [][/\ \A i, j \in Slots :
          tlb'[i].valid /\ tlb'[j].valid /\ tlb'[i].vpn = tlb'[j].vpn => i = j
     /\ last'.op = "insert_tlb" =>
          LET new == [valid |-> TRUE, rw |-> last'.rw, vpn |-> last'.vpn, pfn |-> last'.pfn]
          IN  IF \E i \in Slots : tlb[i].valid /\ tlb[i].vpn = last'.vpn
                THEN \E i \in Slots : /\ tlb[i].valid /\ tlb[i].vpn = last'.vpn
                                      /\ tlb' = [tlb EXCEPT ![i] = new]
                ELSE \E i \in Slots : /\ ~tlb[i].valid
                                      /\ tlb' = [tlb EXCEPT ![i] = new]]_vars

\* insert_tlb rewrote the entry its vpn already had, next to another vpn's entry
C3_Witness ==
  /\ last.op = "insert_tlb" /\ last.cached = 1
  /\ \E i, j \in Slots : /\ i # j /\ tlb[i].valid /\ tlb[j].valid
                         /\ tlb[i].vpn = last.vpn /\ tlb[i].rw = last.rw
                         /\ tlb[i].pfn = last.pfn

\* every PTE other than that of vpn in process p is what it was
OtherPTEsKept(p, vpn) ==
  \A q \in AllPids, w \in AllVpns :
    (q # p \/ w # vpn) => PTEOf(pagetable', q, w) = PTEOf(pagetable, q, w)

\* no page table other than that of process p changed
OtherTablesKept(p) == \A q \in AllPids \ {p} : pagetable'[q] = pagetable[q]

\* C4: whenever a frame has count zero, alloc_page(vpn, rw) returns the
\* lowest frame f whose count is zero, sets mapcounts[f] to 1 and stores
\* valid, rw, private = rw, pfn = f in the current process's PTE of vpn,
\* creating the directory if absent; no other count and no other process's
\* page table changes.
C4_SmallestFrameFirst ==
  [][last'.op = "alloc_page" /\ (\E f \in Frames : mapcounts[f] = 0) =>
       LET f == CHOOSE f \in Frames :
                  mapcounts[f] = 0 /\ \A g \in Frames : mapcounts[g] = 0 => f <= g
           v == last'.vpn
       IN  /\ ~crashed'
           /\ last'.ret = f
           /\ mapcounts' = [mapcounts EXCEPT ![f] = 1]
           /\ pagetable'[ptbr][outer_pte_index(v)].state = "alloc"
           /\ PTEOf(pagetable', ptbr, v) =
                [valid |-> TRUE, rw |-> last'.rw, pfn |-> f, private |-> last'.rw]
           /\ OtherTablesKept(ptbr)]_vars

\* C5: free_page(vpn) of a vpn the current process maps validly resets that
\* PTE to invalid with rw, private and pfn zero, takes exactly 1 from the
\* count of the frame it mapped, leaves every other PTE alone and
\* invalidates every TLB entry of vpn, so that lookups of vpn for read and
\* for write miss; TLB entries of other vpns are unchanged.
C5_FreeValidPage ==
  [][last'.op = "free_page" /\ PTEOf(pagetable, ptbr, last'.vpn).valid =>
       LET v == last'.vpn
           f == PTEOf(pagetable, ptbr, v).pfn
       IN  /\ ~crashed'
           /\ PTEOf(pagetable', ptbr, v) = ZeroPTE
           /\ mapcounts' = [mapcounts EXCEPT ![f] = @ - 1]
           /\ OtherPTEsKept(ptbr, v)
           /\ \A i \in Slots : ~(tlb'[i].valid /\ tlb'[i].vpn = v)
           /\ \A rw \in ProbeAccess : tlb_hit(tlb', v, rw) = -1
           /\ \A i \in Slots : tlb[i].valid /\ tlb[i].vpn # v => tlb'[i] = tlb[i]]_vars

\* free_page released a cached page whose frame another process still maps
C5_Witness ==
  /\ last.op = "free_page" /\ last.pte.valid /\ last.cached = 1 /\ last.cnt = 2
  /\ mapcounts[last.pte.pfn] = 1
  /\ \E p \in Procs \ {current} :
       /\ PTEOf(pagetable, p, last.vpn).valid
       /\ PTEOf(pagetable, p, last.vpn).pfn = last.pte.pfn

\* C6: right after any switch_process(pid) - a switch to a queued process, a
\* fork, or pid naming the current process - every TLB entry is invalid, so
\* every lookup misses.
C6_FlushOnSwitch ==
  last.op = "switch_process" =>
    /\ \A i \in Slots : ~tlb[i].valid
    /\ \A v \in AllVpns, rw \in ProbeAccess : tlb_hit(tlb, v, rw) = -1

\* switch_process ran with translations cached and another process queued
C6_Witness ==
  last.op = "switch_process" /\ last.cached >= 1 /\ Len(processes) >= 1

\* the step is switch_process(pid) forking: pid is neither the current
\* process nor in the ready queue, and the call returns
ForkStep ==
  /\ last'.op = "switch_process" /\ ~crashed'
  /\ last'.pid # current /\ ~in_queue(processes, last'.pid)

\* C7: a fork gives the child, for every valid PTE of the parent that grants
\* write, a valid PTE with rw = read and the same pfn, and downgrades the
\* parent's PTE to rw = read, both keeping private; a valid read-only PTE is
\* copied unchanged; either way the frame's count grows by exactly 1; an
\* invalid slot stays invalid in the child.  (Stated for runs in which
\* malloc() returned zeroed memory.)
C7_ForkSnapshot ==
  [][ForkStep /\ zeroed' =>
       \A v \in AllVpns :
         LET e == PTEOf(pagetable, ptbr, v)
             shared == [e EXCEPT !.rw = ACCESS_READ]
         IN  IF e.valid
               THEN /\ PTEOf(pagetable', last'.pid, v) =
                         (IF covers(e.rw, ACCESS_WRITE) THEN shared ELSE e)
                    /\ PTEOf(pagetable', ptbr, v) =
                         (IF covers(e.rw, ACCESS_WRITE) THEN shared ELSE e)
                    /\ mapcounts'[e.pfn] = mapcounts[e.pfn] + 1
               ELSE ~PTEOf(pagetable', last'.pid, v).valid]_vars

\* C8: handle_page_fault(vpn, write) on a valid PTE with rw = read and
\* private = read-write whose frame f has a count above 1 (as an unsigned
\* value), a frame being free, returns true, moves the PTE to the lowest free
\* frame g with rw = read-write, sets mapcounts[g] to 1, takes exactly 1 from
\* mapcounts[f], and leaves every other PTE of every process alone.
C8_CowDuplicate ==
  [][LET v == last'.vpn
         e == PTEOf(pagetable, ptbr, v)
     IN  /\ last'.op = "handle_page_fault" /\ last'.rw = ACCESS_WRITE
         /\ e.valid /\ e.rw = ACCESS_READ /\ e.private = ACCESS_READ + ACCESS_WRITE
         /\ mapcounts[e.pfn] \notin {0, 1}
         /\ \E g \in Frames : mapcounts[g] = 0
         => LET g == CHOOSE g \in Frames :
                       mapcounts[g] = 0 /\ \A h \in Frames : mapcounts[h] = 0 => g <= h
            IN  /\ ~crashed'
                /\ last'.ret = 1
                /\ PTEOf(pagetable', ptbr, v) =
                     [valid |-> TRUE, rw |-> ACCESS_READ + ACCESS_WRITE, pfn |-> g,
                      private |-> ACCESS_READ + ACCESS_WRITE]
                /\ mapcounts' = [mapcounts EXCEPT ![e.pfn] = @ - 1, ![g] = 1]
                /\ OtherPTEsKept(ptbr, v)]_vars

\* the writer moved to a fresh frame; the other process still maps the old
\* frame read-only
C8_Witness ==
  /\ last.op = "handle_page_fault" /\ last.ret = 1 /\ last.cnt = 2 /\ zeroed
  /\ cur_pte(last.vpn).pfn = last.free /\ last.free # last.pte.pfn
  /\ mapcounts[last.pte.pfn] = 1 /\ mapcounts[last.free] = 1
  /\ \E p \in Procs \ {current} :
       /\ PTEOf(pagetable, p, last.vpn).valid
       /\ PTEOf(pagetable, p, last.vpn).pfn = last.pte.pfn
       /\ PTEOf(pagetable, p, last.vpn).rw = ACCESS_READ

\* C9: handle_page_fault(vpn, write) on a valid PTE with rw = read and
\* private = read-write whose frame has count exactly 1 returns true, sets rw
\* to read-write, keeps the pfn and changes no count - also when no frame
\* is free.
C9_CowPromote ==
  [][LET v == last'.vpn
         e == PTEOf(pagetable, ptbr, v)
     IN  /\ last'.op = "handle_page_fault" /\ last'.rw = ACCESS_WRITE
         /\ e.valid /\ e.rw = ACCESS_READ /\ e.private = ACCESS_READ + ACCESS_WRITE
         /\ mapcounts[e.pfn] = 1
         => /\ ~crashed'
            /\ last'.ret = 1
            /\ PTEOf(pagetable', ptbr, v) = [e EXCEPT !.rw = ACCESS_READ + ACCESS_WRITE]
            /\ mapcounts' = mapcounts
            /\ OtherPTEsKept(ptbr, v)]_vars

\* the parent of a fork, left sole owner after the child duplicated the page,
\* regained write access in place with no frame free
C9_Witness ==
  /\ last.op = "handle_page_fault" /\ last.ret = 1 /\ zeroed
  /\ last.pte.valid /\ last.pte.rw = ACCESS_READ /\ last.cnt = 1 /\ last.free = -1
  /\ cur_pte(last.vpn).pfn = last.pte.pfn
  /\ cur_pte(last.vpn).rw = ACCESS_READ + ACCESS_WRITE
  /\ Len(processes) >= 1
  /\ \A f \in Frames : mapcounts[f] = Cardinality(MappingsOf(f))

\* C10: when the page-table walk of (vpn, access) succeeds with frame p and
\* insert_tlb(vpn, access, p) follows, lookup_tlb(vpn, access) hits and
\* returns p.  (Stated for runs in which malloc() returned zeroed memory.)
C10_CacheTableAgreement ==
  zeroed /\ last.op = "translate" /\ last.ret = 1 =>
    /\ tlb_hit(tlb, last.vpn, last.rw) # -1
    /\ tlb[tlb_hit(tlb, last.vpn, last.rw)].pfn = last.pfn

\* C11: switch_process(pid) with pid in the ready queue appends the process
\* that was running to the tail of the queue, takes the named process out of
\* the queue and makes it current, points the PTBR at its page table, keeps
\* the order of the other queued processes, and changes no PTE of any
\* process and no count; no process is created.
C11_SwitchToQueued ==
  [][last'.op = "switch_process"
       /\ (\E k \in 1 .. Len(processes) : processes[k] = last'.pid) =>
       /\ ~crashed'
       /\ \E k \in 1 .. Len(processes) :
            /\ processes[k] = last'.pid
            /\ processes' = SubSeq(processes, 1, k - 1)
                               \o SubSeq(processes, k + 1, Len(processes))
                               \o <<current>>
       /\ current' = last'.pid
       /\ ptbr' = last'.pid
       /\ pagetable' = pagetable
       /\ mapcounts' = mapcounts
       /\ created' = created]_vars

\* the head of a queue of two was switched to: the other queued process moved
\* to the front, the process that was running is behind it, and a mapped
\* page kept its frame and count
C11_Witness ==
  /\ last.op = "switch_process" /\ ~crashed
  /\ Len(last.queue) = 2 /\ last.queue[1] = last.pid /\ current = last.pid
  /\ processes = <<last.queue[2], last.from>>
  /\ \E v \in AllVpns : /\ PTEOf(pagetable, current, v).valid
                         /\ mapcounts[PTEOf(pagetable, current, v).pfn] = 3

\* C12: after any sequence of switch_process calls (switches to queued pids,
\* forks of new pids, switches to the current pid) exactly one process is
\* current, it is not in the ready queue, every other process ever created
\* is in the ready queue exactly once, the PTBR refers to the current
\* process's page table, and no two processes share a pid.
C12_OneCurrentOthersQueued ==
  /\ last.op = "switch_process" => ~crashed
  /\ created[current] = 1
  /\ ptbr = current
  /\ \A k \in 1 .. Len(processes) : processes[k] # current
  /\ \A p \in AllPids : created[p] <= 1
  /\ \A p \in AllPids \ {current} :
       Cardinality({k \in 1 .. Len(processes) : processes[k] = p}) = created[p]

\* C13: free_page(vpn) changes nothing when the current process has no
\* directory for vpn or its PTE of vpn is invalid: no PTE, no count (that of
\* frame 0 included) and no TLB entry changes, and no count goes below
\* zero.  (Stated for runs in which malloc() returned zeroed memory.)
C13_FreeAbsentPage ==
  [][last'.op = "free_page" /\ zeroed /\ ~PTEOf(pagetable, ptbr, last'.vpn).valid =>
       /\ ~crashed'
       /\ pagetable' = pagetable
       /\ mapcounts' = mapcounts
       /\ tlb' = tlb
       /\ \A f \in Frames : mapcounts'[f] >= 0]_vars

\* C14: switch_process(pid) with pid the id of the current process leaves
\* the same process current, the ready queue with the same members in the
\* same order, the PTBR, all page tables and all counts unchanged, creates
\* no process, and flushes the TLB.
C14_SwitchToCurrent ==
  [][last'.op = "switch_process" /\ last'.pid = current =>
       /\ ~crashed'
       /\ current' = current
       /\ processes' = processes
       /\ ptbr' = ptbr
       /\ pagetable' = pagetable
       /\ mapcounts' = mapcounts
       /\ created' = created
       /\ \A i \in Slots : ~tlb'[i].valid]_vars

\* C15: handle_page_fault(vpn, rw) returns false and changes no state (no
\* PTE, no count, no TLB entry, no queue) whenever the current process has
\* no directory for vpn, or the PTE is invalid, or the access is a read, or
\* the PTE's private does not include write, or the PTE's rw is not read.
C15_UnresolvedFaultKeepsState ==
  [][LET v == last'.vpn
         e == PTEOf(pagetable, ptbr, v)
     IN  /\ last'.op = "handle_page_fault"
         /\ \/ pagetable[ptbr][outer_pte_index(v)].state # "alloc"
            \/ ~e.valid
            \/ last'.rw = ACCESS_READ
            \/ ~covers(e.private, ACCESS_WRITE)
            \/ e.rw # ACCESS_READ
         => /\ last'.ret = 0
            /\ state' = state]_vars

\* C16: when every frame has a non-zero count, alloc_page(vpn, rw) returns
\* -1 and handle_page_fault(vpn, write) on a valid PTE with rw = read and
\* private = read-write whose frame has a count above 1 returns false; in
\* both cases no PTE, no count, no directory and no TLB entry changes.
C16_NoFreeFrame ==
  [][(\A f \in Frames : mapcounts[f] # 0) =>
       /\ last'.op = "alloc_page" => last'.ret = -1 /\ state' = state
       /\ LET e == PTEOf(pagetable, ptbr, last'.vpn)
          IN  /\ last'.op = "handle_page_fault" /\ last'.rw = ACCESS_WRITE
              /\ e.valid /\ e.rw = ACCESS_READ
              /\ e.private = ACCESS_READ + ACCESS_WRITE
              /\ mapcounts[e.pfn] \notin {0, 1}
              => last'.ret = 0 /\ state' = state]_vars

\* with both frames shared by two processes, a write fault on a shared page
\* failed and left the page read-only on its frame
C16_Witness ==
  /\ last.op = "handle_page_fault" /\ last.rw = ACCESS_WRITE /\ last.ret = 0
  /\ last.free = -1 /\ last.cnt = 2 /\ zeroed /\ ~crashed
  /\ last.pte.valid /\ last.pte.rw = ACCESS_READ
  /\ last.pte.private = ACCESS_READ + ACCESS_WRITE
  /\ cur_pte(last.vpn) = last.pte
  /\ \A f \in Frames : mapcounts[f] = 2

\* C17: whenever handle_page_fault(vpn, write) returns true, the page-table
\* walk of (vpn, write) that the driver retries next succeeds for the
\* current process: the PTE of vpn is valid and its rw covers write, so one
\* fault resolution is enough for the access.
C17_ResolvedFaultTranslates ==
  last.op = "handle_page_fault" /\ last.rw = ACCESS_WRITE /\ last.ret = 1 =>
    /\ ~crashed
    /\ cur_outer_pte(last.vpn).state = "alloc"
    /\ cur_pte(last.vpn).valid
    /\ covers(cur_pte(last.vpn).rw, ACCESS_WRITE)

\* a write fault on a page that was read-only after a fork returned true and
\* the page is now writable by the process that faulted
C17_Witness ==
  /\ last.op = "handle_page_fault" /\ last.rw = ACCESS_WRITE /\ last.ret = 1
  /\ zeroed /\ ~crashed /\ Len(processes) >= 1
  /\ last.pte.valid /\ ~covers(last.pte.rw, ACCESS_WRITE)
  /\ cur_pte(last.vpn).valid /\ covers(cur_pte(last.vpn).rw, ACCESS_WRITE)

\* C18: after any sequence of alloc_page, handle_page_fault, free_page and
\* switch_process calls, no valid PTE of any process has an rw that grants
\* an access its private (the access given at allocation) does not include;
\* in particular a PTE whose private is read has rw = read.
C18_RwWithinPrivate ==
  ~crashed =>
    \A p \in Procs, v \in AllVpns :
      LET e == PTEOf(pagetable, p, v)
      IN  e.valid =>
            /\ \A a \in ProbeAccess : covers(e.rw, a) => covers(e.private, a)
            /\ e.private = ACCESS_READ => e.rw = ACCESS_READ

\* C19: after any sequence of alloc_page (with access read, write or
\* read-write), free_page, handle_page_fault and switch_process calls, a
\* frame that more than one valid PTE maps (of one process or of several)
\* is mapped with rw = read by all of them: no PTE grants write to a frame
\* another valid PTE also maps.  (Stated for runs in which malloc()
\* returned zeroed memory.)
C19_CowIsolation ==
  zeroed /\ ~crashed =>
    \A f \in Frames :
      Cardinality(MappingsOf(f)) > 1 =>
        \A m \in MappingsOf(f) : PTEOf(pagetable, m[1], m[2]).rw = ACCESS_READ

\* C20: when the TLB is filled only by insert_tlb(vpn, access, pfn) right
\* after a successful page-table walk of (vpn, access) yielding pfn, then
\* after every completed call each valid TLB entry (vpn, rw, pfn) has a
\* valid PTE of vpn in the current process's page table with the same pfn
\* and an rw that covers the cached rw.  (Stated for runs in which malloc()
\* returned zeroed memory.)
C20_CacheCoherence ==
  zeroed /\ ~crashed =>
    \A i \in Slots :
      tlb[i].valid =>
        /\ tlb[i].vpn \in AllVpns
        /\ PTEOf(pagetable, current, tlb[i].vpn).valid
        /\ PTEOf(pagetable, current, tlb[i].vpn).pfn = tlb[i].pfn
        /\ \A a \in ProbeAccess :
             covers(tlb[i].rw, a) => covers(PTEOf(pagetable, current, tlb[i].vpn).rw, a)

====
